---------------------------- MODULE Spec2Model ----------------------------
(***************************************************************************)
(* Model of github_projects_mcp: the project identifier resolver of       *)
(* GitHubProjectsClient, the closed-project filter of the project list    *)
(* queries, the status grouping of the CLI board and of the MCP           *)
(* project-issues resources, the owner/repo taken from item urls, the     *)
(* commit filter, and the main loop of the CLI.                            *)
(*                                                                         *)
(* Python strings are sequences of code points (35 '#', 49 '1', 65 'A',   *)
(* 97 'a', ...), so that lower(), lstrip(), isdigit(), startswith, the    *)
(* `in` substring test and string ordering are computed, not assumed.     *)
(***************************************************************************)
EXTENDS Integers, Sequences, FiniteSets

VARIABLES
    pc,             \* position of the call being modelled: "start" | "done"
    op,             \* the operation that ran: "none" or the name of the function
    nodes,          \* project nodes the remote API holds for the account (raw, with closed)
    projects,       \* the list handed to _find_project_in_list
    identifier,     \* the identifier string handed to the resolver
    result,         \* outcome of the resolver: NoResult, Returned(id) or ValueError
    items,          \* item nodes of the project document the remote API holds
    status_groups,  \* display_project_board: status -> items, in insertion order
    status_order,   \* display_project_board: the order the groups are displayed in
    board,          \* display_project_board: the tables printed, in order
    response,       \* get_project_issues / get_org_project_issues: what the call gave
    raised,         \* display_project_board: the exception that left it, "none" if none
    queries,        \* get_project_issues / get_org_project_issues: the queries sent, in order
    choice,         \* display_issue_details: the issue number the user typed
    details,        \* display_issue_details: what the call did
    commits,        \* get_commits_by_prefix: the commits the history query returned
    prefix,         \* get_commits_by_prefix: the prefix asked for
    filtered_commits, \* get_commits_by_prefix: the list returned
    cache,          \* run: self.cache (last_choice, last_username, last_org; "" when absent)
    run_choice,     \* run: choice, "user" | "org" | "exit" ("" before the first)
    selected_project, \* run: what display_projects returned
    iteration,      \* run: how many iterations of the while loop have ended
    gateway,        \* run: the query of the last step: "none" | "ok" | "failed"
    reports         \* run: the error messages printed so far, in order

resolveVars == <<nodes, projects, identifier, result>>
boardVars == <<items, status_groups, status_order, board, response, raised, queries>>
detailVars == <<choice, details>>
commitVars == <<commits, prefix, filtered_commits>>
loopVars == <<cache, run_choice, selected_project, iteration, gateway, reports>>
restVars == <<detailVars, commitVars, loopVars>>
vars == <<pc, op, nodes, projects, identifier, result,
          items, status_groups, status_order, board, response, raised, queries,
          choice, details, commits, prefix, filtered_commits,
          cache, run_choice, selected_project, iteration, gateway, reports>>

----------------------------------------------------------------------------
(* Python string primitives *)

\* str.lower() on one code point: 'A'..'Z' map to 'a'..'z'
LowerChar(c) == IF c >= 65 /\ c <= 90 THEN c + 32 ELSE c

\* str.lower()
Lower(s) == [i \in 1..Len(s) |-> LowerChar(s[i])]

\* str.lstrip(chars) for a single character: every leading occurrence goes
RECURSIVE LStrip(_, _)
LStrip(s, c) == IF s # <<>> /\ Head(s) = c THEN LStrip(Tail(s), c) ELSE s

\* str.isdigit(): non-empty and every character a decimal digit
IsDigit(s) == s # <<>> /\ \A i \in 1..Len(s) : s[i] >= 48 /\ s[i] <= 57

\* str(n) for a non-negative integer: its decimal digits, no leading zero
RECURSIVE Str(_)
Str(n) == IF n < 10 THEN <<48 + n>> ELSE Str(n \div 10) \o <<48 + (n % 10)>>

\* str.startswith(prefix)
StartsWith(s, prefix_) ==
    /\ Len(prefix_) <= Len(s)
    /\ \A i \in 1..Len(prefix_) : s[i] = prefix_[i]

\* `sub in s` for strings: sub occurs as a contiguous substring of s
Contains(s, sub) ==
    \E k \in 0..(Len(s) - Len(sub)) :
        \A i \in 1..Len(sub) : s[k + i] = sub[i]

\* a < b for strings: code point by code point, a proper prefix first
StrLess(a, b) ==
    \E k \in 1..(Len(b)) :
        /\ k <= Len(a) + 1
        /\ \A i \in 1..(k - 1) : a[i] = b[i]
        /\ (k = Len(a) + 1 \/ a[k] < b[k])

\* str.split(sep) for a one-character separator
RECURSIVE Split(_, _)
Split(s, c) ==
    IF \E i \in 1..Len(s) : s[i] = c
    THEN LET k == CHOOSE i \in 1..Len(s) :
                      s[i] = c /\ \A j \in 1..(i - 1) : s[j] # c
         IN  <<SubSeq(s, 1, k - 1)>> \o Split(SubSeq(s, k + 1, Len(s)), c)
    ELSE <<s>>

----------------------------------------------------------------------------
(* Outcomes of a call *)

NoResult == [kind |-> "none", id |-> <<>>]
Returned(id) == [kind |-> "returned", id |-> id]
ValueError == [kind |-> "ValueError", id |-> <<>>]

\* a `for x in xs: if cond(x): ...return/break` loop: hits[i] is cond(xs[i]);
\* the index at which the loop stops, or 0 when it runs to the end
FirstIndex(hits) ==
    IF \E i \in 1..Len(hits) : hits[i]
    THEN CHOOSE i \in 1..Len(hits) :
            /\ hits[i]
            /\ \A j \in 1..(i - 1) : ~hits[j]
    ELSE 0

----------------------------------------------------------------------------
(* GitHubProjectsClient.get_user_projects / get_org_projects *)

get_user_projects_unfiltered(nodes_) == nodes_
\* the nodes of the user's projectsV2 connection, closed projects removed
get_user_projects(nodes_) ==
    LET open(p) == ~p.closed
    IN  SelectSeq(nodes_, open)

\* the nodes of the organization's projectsV2 connection, closed projects removed
get_org_projects(nodes_) ==
    LET open(p) == ~p.closed
    IN  SelectSeq(nodes_, open)

----------------------------------------------------------------------------
(* GitHubProjectsClient._find_project_in_list *)

\* rule 1: exact id match
IdMatch(projects_, identifier_) ==
    FirstIndex([i \in 1..Len(projects_) |-> projects_[i].id = identifier_])

\* rule 2: number match ("#10" or "10")
NumberMatch_no_lstrip(projects_, identifier_) ==
    IF IsDigit(identifier_)
    THEN FirstIndex([i \in 1..Len(projects_) |->
                        Str(projects_[i].number) = identifier_])
    ELSE 0
NumberMatch_prefix(projects_, identifier_) ==
    LET number == LStrip(identifier_, 35)
    IN  IF IsDigit(number)
        THEN FirstIndex([i \in 1..Len(projects_) |->
                            StartsWith(Str(projects_[i].number), number)])
        ELSE 0
NumberMatch(projects_, identifier_) ==
    LET number == LStrip(identifier_, 35)
    IN  IF IsDigit(number)
        THEN FirstIndex([i \in 1..Len(projects_) |->
                            Str(projects_[i].number) = number])
        ELSE 0

\* rule 3: exact title match, case-insensitive
ExactTitleMatch_case_sensitive(projects_, identifier_) ==
    FirstIndex([i \in 1..Len(projects_) |-> projects_[i].title = identifier_])
ExactTitleMatch(projects_, identifier_) ==
    FirstIndex([i \in 1..Len(projects_) |->
                   Lower(projects_[i].title) = Lower(identifier_)])

\* rule 4: partial title match
PartialTitleMatch_title_not_lowered(projects_, identifier_) ==
    FirstIndex([i \in 1..Len(projects_) |->
                   Contains(projects_[i].title, Lower(identifier_))])
PartialTitleMatch(projects_, identifier_) ==
    FirstIndex([i \in 1..Len(projects_) |->
                   Contains(Lower(projects_[i].title), Lower(identifier_))])

\* the four loops in order; the first loop returns the identifier itself,
\* the others the id of the matching project; ValueError when none matches
find_project_in_list_number_first(projects_, identifier_) ==
    IF NumberMatch(projects_, identifier_) # 0
    THEN Returned(projects_[NumberMatch(projects_, identifier_)].id)
    ELSE IF IdMatch(projects_, identifier_) # 0
    THEN Returned(identifier_)
    ELSE IF ExactTitleMatch(projects_, identifier_) # 0
    THEN Returned(projects_[ExactTitleMatch(projects_, identifier_)].id)
    ELSE IF PartialTitleMatch(projects_, identifier_) # 0
    THEN Returned(projects_[PartialTitleMatch(projects_, identifier_)].id)
    ELSE ValueError
_find_project_in_list(projects_, identifier_) ==
    IF IdMatch(projects_, identifier_) # 0
    THEN Returned(identifier_)
    ELSE IF NumberMatch(projects_, identifier_) # 0
    THEN Returned(projects_[NumberMatch(projects_, identifier_)].id)
    ELSE IF ExactTitleMatch(projects_, identifier_) # 0
    THEN Returned(projects_[ExactTitleMatch(projects_, identifier_)].id)
    ELSE IF PartialTitleMatch(projects_, identifier_) # 0
    THEN Returned(projects_[PartialTitleMatch(projects_, identifier_)].id)
    ELSE ValueError

(* GitHubProjectsClient.find_project_id / find_org_project_id *)
find_project_id(nodes_, identifier_) ==
    _find_project_in_list(get_user_projects(nodes_), identifier_)

find_org_project_id(nodes_, identifier_) ==
    _find_project_in_list(get_org_projects(nodes_), identifier_)

----------------------------------------------------------------------------
(* Strings of the board code *)

NoStatus == <<78, 111, 32, 83, 116, 97, 116, 117, 115>>         \* "No Status"
status == <<115, 116, 97, 116, 117, 115>>                        \* "status"
todo == <<116, 111, 100, 111>>                                   \* "todo"
closed == <<99, 108, 111, 115, 101, 100>>                        \* "closed"
done == <<100, 111, 110, 101>>                                   \* "done"
issues_marker == <<47, 105, 115, 115, 117, 101, 115, 47>>        \* "/issues/"

----------------------------------------------------------------------------
(* Grouping by status: shared shape of display_project_board and           *)
(* get_project_issues.  A dict keeps its keys in insertion order: a group  *)
(* list is a sequence of [status, items], one entry per key.               *)

\* None, the null of a document: no string of the inputs has code point 0
None == <<0>>

\* field_value.get("name", "No Status"): only a single-select value has a
\* name, and the name of an option may be None
fv_name(fv) == IF fv.variant = "select" THEN fv.value ELSE NoStatus

\* position of key s in a dict, 0 when absent
KeyIndex(groups, s) ==
    FirstIndex([g \in 1..Len(groups) |-> groups[g].status = s])

\* dict.keys()
Keys(groups) == [g \in 1..Len(groups) |-> groups[g].status]

add_to_group_front(groups, s, x) ==
    LET k == KeyIndex(groups, s)
        base == IF k = 0
                THEN Append(groups, [status |-> s, items |-> <<>>])
                ELSE groups
        pos == IF k = 0 THEN Len(groups) + 1 ELSE k
    IN  [base EXCEPT ![pos].items = <<x>> \o @]
\* if status not in groups: groups[status] = []; groups[status].append(x)
add_to_group(groups, s, x) ==
    LET k == KeyIndex(groups, s)
        base == IF k = 0
                THEN Append(groups, [status |-> s, items |-> <<>>])
                ELSE groups
        pos == IF k = 0 THEN Len(groups) + 1 ELSE k
    IN  [base EXCEPT ![pos].items = Append(@, x)]

----------------------------------------------------------------------------
(* GitHubProjectsCLI.display_project_board *)

cli_status_case_sensitive(item) ==
    LET fvs == item.fieldValues.nodes
        k == FirstIndex([j \in 1..Len(fvs) |->
                            fvs[j].field.present /\ fvs[j].field.name = status])
    IN  IF k = 0 THEN NoStatus ELSE fv_name(fvs[k])
\* the status of an item: the name of the first field-value whose field is
\* named "status" in any casing, "No Status" otherwise
cli_status(item) ==
    LET fvs == item.fieldValues.nodes
        k == FirstIndex([j \in 1..Len(fvs) |->
                            fvs[j].field.present
                            /\ Lower(fvs[j].field.name) = status])
    IN  IF k = 0 THEN NoStatus ELSE fv_name(fvs[k])

\* item.get("fieldValues", {}).get("nodes", []) raises AttributeError when
\* fieldValues is null: the default stands for a missing key only
field_values_raise(item) == ~item.fieldValues.present

\* the grouping loop from item i on; every item is grouped, and a group
\* holds the positions of its items in the item list
RECURSIVE cli_group(_, _, _)
cli_group(items_, i, groups) ==
    IF i > Len(items_)
    THEN groups
    ELSE cli_group(items_, i + 1, add_to_group(groups, cli_status(items_[i]), i))

\* sorted(): ascending, stable
RECURSIVE sorted(_)
sorted(seq) ==
    IF seq = <<>>
    THEN <<>>
    ELSE LET front == sorted(SubSeq(seq, 1, Len(seq) - 1))
             x == seq[Len(seq)]
             n == Cardinality({i \in 1..Len(front) : ~StrLess(x, front[i])})
         IN  SubSeq(front, 1, n) \o <<x>> \o SubSeq(front, n + 1, Len(front))

\* "todo" in s.lower()
is_todo(s) == Contains(Lower(s), todo)
\* "closed" in s.lower() or "done" in s.lower()
is_closed(s) == Contains(Lower(s), closed) \/ Contains(Lower(s), done)
\* s in todo_statuses + closed_statuses
InSeq(seq, s) == \E i \in 1..Len(seq) : seq[i] = s

compute_status_order_all_sorted(keys) ==
    LET todo_statuses == SelectSeq(keys, is_todo)
        closed_statuses == SelectSeq(keys, is_closed)
        other(s) == ~InSeq(todo_statuses \o closed_statuses, s)
        other_statuses == SelectSeq(keys, other)
    IN  todo_statuses \o sorted(other_statuses) \o sorted(closed_statuses)
\* status_order: todo statuses, then the others sorted, then closed statuses
compute_status_order(keys) ==
    LET todo_statuses == SelectSeq(keys, is_todo)
        closed_statuses == SelectSeq(keys, is_closed)
        other(s) == ~InSeq(todo_statuses \o closed_statuses, s)
        other_statuses == SelectSeq(keys, other)
    IN  todo_statuses \o sorted(other_statuses) \o closed_statuses

\* the exception that leaves display_project_board: the grouping loop reads
\* the field-values of every item, and s.lower() of the ordering raises
\* AttributeError on a status that is None
cli_raised(items_) ==
    IF \E i \in 1..Len(items_) : field_values_raise(items_[i])
    THEN "AttributeError"
    ELSE IF InSeq(Keys(cli_group(items_, 1, <<>>)), None)
    THEN "AttributeError"
    ELSE "none"

\* one table per status of the order: its title carries the size of the
\* group, its rows are the items of the group that have content
display_tables(items_, groups, order) ==
    [t \in 1..Len(order) |->
        LET status_items == groups[KeyIndex(groups, order[t])].items
            has_content(i) == items_[i].content.kind # "none"
        IN  [status |-> order[t],
             count |-> Len(status_items),
             rows |-> SelectSeq(status_items, has_content)]]

----------------------------------------------------------------------------
(* get_project_issues / get_org_project_issues of the MCP server *)

\* the status of an item, as display_project_board computes it
mcp_status(item) ==
    LET fvs == item.fieldValues.nodes
        k == FirstIndex([j \in 1..Len(fvs) |->
                            fvs[j].field.present
                            /\ Lower(fvs[j].field.name) = status])
    IN  IF k = 0 THEN NoStatus ELSE fv_name(fvs[k])

\* items with no content or no number (draft issues) are skipped
mcp_skipped(item) == item.content.kind = "none" \/ item.content.number = 0

\* url.split("/") when the url contains "/issues/"
url_parts(url) == IF Contains(url, issues_marker) THEN Split(url, 47) ELSE <<>>

\* parts[3], parts[4] raise IndexError on a url of fewer than five segments
raises_IndexError(item) ==
    /\ Contains(item.content.url, issues_marker)
    /\ Len(Split(item.content.url, 47)) < 5

\* issue_data of item i (item: which node of the item list it was built from)
issue_data(items_, i) ==
    LET content == items_[i].content
        parts == url_parts(content.url)
    IN  [item |-> i,
         number |-> content.number,
         title |-> content.title,
         url |-> content.url,
         owner |-> IF Len(parts) >= 5 THEN parts[4] ELSE <<>>,
         repo |-> IF Len(parts) >= 5 THEN parts[5] ELSE <<>>,
         status |-> mcp_status(items_[i])]

\* the loop over the items from item i on
RECURSIVE mcp_group(_, _, _)
mcp_group(items_, i, groups) ==
    IF i > Len(items_)
    THEN groups
    ELSE IF mcp_skipped(items_[i])
    THEN mcp_group(items_, i + 1, groups)
    ELSE mcp_group(items_, i + 1,
                   add_to_group(groups, mcp_status(items_[i]), issue_data(items_, i)))

RECURSIVE SumLen(_)
SumLen(groups) ==
    IF groups = <<>> THEN 0 ELSE Len(groups[1].items) + SumLen(Tail(groups))

NoResponse ==
    [type |-> "none", project_id |-> <<>>, issues_by_status |-> <<>>,
     total_issues |-> 0, available_projects |-> <<>>]

\* the except ValueError branch: the open projects of the account
error_response(open_projects) ==
    [type |-> "error", project_id |-> <<>>, issues_by_status |-> <<>>,
     total_issues |-> 0,
     available_projects |->
        [i \in 1..Len(open_projects) |->
            [title |-> open_projects[i].title,
             id |-> open_projects[i].id,
             number |-> open_projects[i].number]]]

\* content.get("author", {}).get("login") raises AttributeError when author
\* is null (the account of the author was deleted)
raises_on_author(item) == item.content.author.kind = "null"

\* the exception the loop body raises on an item, "none" if none: a skipped
\* item is not looked at; then the field-values are read, then the url is
\* split, then the author
mcp_item_raised(item) ==
    IF mcp_skipped(item) THEN "none"
    ELSE IF field_values_raise(item) THEN "AttributeError"
    ELSE IF raises_IndexError(item) THEN "IndexError"
    ELSE IF raises_on_author(item) THEN "AttributeError"
    ELSE "none"

\* the exception that leaves the handler: that of the first item that raises
mcp_raised(items_) ==
    LET k == FirstIndex([i \in 1..Len(items_) |-> mcp_item_raised(items_[i]) # "none"])
    IN  IF k = 0 THEN "none" ELSE mcp_item_raised(items_[k])

\* an exception leaves the handler
raised_response(project_id, exception) ==
    [type |-> exception, project_id |-> project_id, issues_by_status |-> <<>>,
     total_issues |-> 0, available_projects |-> <<>>]

\* the body after the project id is known
project_issues(project_id, items_) ==
    IF mcp_raised(items_) # "none"
    THEN raised_response(project_id, mcp_raised(items_))
    ELSE LET issues_by_status == mcp_group(items_, 1, <<>>)
         IN  [type |-> "project_issues", project_id |-> project_id,
              issues_by_status |-> issues_by_status,
              total_issues |-> SumLen(issues_by_status),
              available_projects |-> <<>>]

get_project_issues_lists_closed(nodes_, identifier_, items_) ==
    LET r == find_project_id(nodes_, identifier_)
    IN  IF r = ValueError
        THEN error_response(nodes_)
        ELSE project_issues(r.id, items_)
get_project_issues(nodes_, identifier_, items_) ==
    LET r == find_project_id(nodes_, identifier_)
    IN  IF r = ValueError
        THEN error_response(get_user_projects(nodes_))
        ELSE project_issues(r.id, items_)

get_org_project_issues(nodes_, identifier_, items_) ==
    LET r == find_org_project_id(nodes_, identifier_)
    IN  IF r = ValueError
        THEN error_response(get_org_projects(nodes_))
        ELSE project_issues(r.id, items_)

\* the queries the handler sends: the project list for the resolver, then
\* the project document, or the project list again when the resolver raised
get_project_issues_queries(nodes_, identifier_) ==
    IF find_project_id(nodes_, identifier_) = ValueError
    THEN <<"get_user_projects", "get_user_projects">>
    ELSE <<"get_user_projects", "get_project_items">>

get_org_project_issues_queries(nodes_, identifier_) ==
    IF find_org_project_id(nodes_, identifier_) = ValueError
    THEN <<"get_org_projects", "get_org_projects">>
    ELSE <<"get_org_projects", "get_project_items">>

----------------------------------------------------------------------------
(* GitHubProjectsCLI.display_issue_details *)

pull_marker == <<47, 112, 117, 108, 108, 47>>                    \* "/pull/"

\* the items with content and a number, as positions in the item list
numbered_items(items_) ==
    LET numbered(i) ==
            items_[i].content.kind # "none" /\ items_[i].content.number # 0
    IN  SelectSeq([i \in 1..Len(items_) |-> i], numbered)

\* the first numbered item whose number is the choice, 0 when there is none
selected_item(items_, choice_) ==
    LET numbered == numbered_items(items_)
        k == FirstIndex([n \in 1..Len(numbered) |->
                            items_[numbered[n]].content.number = choice_])
    IN  IF k = 0 THEN 0 ELSE numbered[k]

NoDetails ==
    [kind |-> "none", item |-> 0, owner |-> <<>>, repo |-> <<>>, number |-> 0,
     comments |-> "none"]

\* what the call does: kind is "no_issues" (nothing numbered), "back"
\* (choice 0), "not_found", "unrecognised" (the url has neither marker, the
\* call ends silently), "shown" (header printed, comments asked for with
\* owner, repo and number), or the exception that leaves the call.
\* comments_fail: the query for the comments fails; it is caught and reported.
display_issue_details(items_, choice_, comments_fail) ==
    LET sel == selected_item(items_, choice_)
        content == items_[sel].content
        parts == Split(content.url, 47)
    IN  IF numbered_items(items_) = <<>> THEN [NoDetails EXCEPT !.kind = "no_issues"]
        ELSE IF choice_ = 0 THEN [NoDetails EXCEPT !.kind = "back"]
        ELSE IF sel = 0 THEN [NoDetails EXCEPT !.kind = "not_found"]
        ELSE IF ~(Contains(content.url, issues_marker) \/ Contains(content.url, pull_marker))
        THEN [NoDetails EXCEPT !.kind = "unrecognised", !.item = sel]
        ELSE IF Len(parts) < 5
        THEN [NoDetails EXCEPT !.kind = "IndexError", !.item = sel]
        ELSE IF content.author.kind = "null"
        THEN [NoDetails EXCEPT !.kind = "AttributeError", !.item = sel]
        ELSE [kind |-> "shown", item |-> sel,
              owner |-> parts[4], repo |-> parts[5], number |-> content.number,
              comments |-> IF comments_fail THEN "error" ELSE "fetched"]

\* nothing has run on the issue view
DetailsIdle ==
    /\ choice = 0
    /\ details = NoDetails

----------------------------------------------------------------------------
(* GitHubProjectsClient.get_commits_by_prefix *)

get_commits_by_prefix_lowered(commits_, prefix_) ==
    LET starts(c) == StartsWith(Lower(c.message), Lower(prefix_))
    IN  SelectSeq(commits_, starts)
\* the commits whose message starts with the prefix, in the order fetched
get_commits_by_prefix(commits_, prefix_) ==
    LET starts(c) == StartsWith(c.message, prefix_)
    IN  SelectSeq(commits_, starts)

----------------------------------------------------------------------------
(* GitHubProjectsCLI.display_projects and run *)

\* None, as display_projects returns it
NoProject == [id |-> <<>>, number |-> 0, title |-> <<>>, closed |-> FALSE]

\* the project picked from the open ones by its row number n; None when
\* there is no project, no open project, or n is 0 or beyond the table
display_projects(projects_, n) ==
    LET is_open(p) == ~p.closed
        open == SelectSeq(projects_, is_open)
    IN  IF projects_ = <<>> THEN NoProject
        ELSE IF open = <<>> THEN NoProject
        ELSE IF n = 0 \/ n > Len(open) THEN NoProject
        ELSE open[n]

EmptyCache == [last_choice |-> "", last_username |-> "", last_org |-> ""]

\* the cache holds a choice and a username or an org: the prompt is skipped
prompt_skipped(cache_) ==
    cache_.last_choice # "" /\ (cache_.last_username # "" \/ cache_.last_org # "")

\* the cache after the account of the choice is known: a cached name is
\* used, otherwise the name typed is stored
with_account(cache_, choice_, name) ==
    IF choice_ = "user"
    THEN IF cache_.last_username # "" THEN cache_
         ELSE [cache_ EXCEPT !.last_username = name]
    ELSE IF cache_.last_org # "" THEN cache_
         ELSE [cache_ EXCEPT !.last_org = name]

\* the loop is not running
LoopIdle ==
    /\ cache = EmptyCache
    /\ run_choice = ""
    /\ selected_project = NoProject
    /\ iteration = 0
    /\ gateway = "none"
    /\ reports = <<>>

\* nothing of the remaining operations has run
RestIdle ==
    /\ choice = 0
    /\ details = NoDetails
    /\ commits = <<>>
    /\ prefix = <<>>
    /\ filtered_commits = <<>>
    /\ LoopIdle

----------------------------------------------------------------------------
(* Inputs of the resolver *)

MaxProjects == 2

\* '#', '1', 'A', 'a'
Alphabet == {35, 49, 65, 97}

StringsUpTo(n) == UNION {[1..k -> Alphabet] : k \in 0..n}

\* "Roadmap", "Roadmap 2024", "roadmap"
Roadmap == <<82, 111, 97, 100, 109, 97, 112>>
Roadmap2024 == <<82, 111, 97, 100, 109, 97, 112, 32, 50, 48, 50, 52>>
roadmap == <<114, 111, 97, 100, 109, 97, 112>>

\* identifiers a caller may type: every string of up to two characters over
\* the alphabet, plus "##1", "#11", "P" (an opaque id) and "roadmap"
Identifiers ==
    StringsUpTo(2) \cup {<<35, 35, 49>>, <<35, 49, 49>>, <<80>>, roadmap}

\* project ids: "1" and "a" can coincide with a number or a title, "P" cannot
Ids == {<<49>>, <<97>>, <<80>>}

\* project numbers: "1" and "11", one a proper prefix of the other
Numbers == {1, 11}

\* titles: "", "A", "aA", "a1", "1", "#1", "Roadmap", "Roadmap 2024"
Titles ==
    {<<>>, <<65>>, <<97, 65>>, <<97, 49>>, <<49>>, <<35, 49>>,
     Roadmap, Roadmap2024}

\* the summaries get_user_projects / get_org_projects return are open
Summaries == [id : Ids, number : Numbers, title : Titles, closed : {FALSE}]

\* lists of up to n elements of S
ListsUpTo(S, n) == UNION {[1..k -> S] : k \in 0..n}

\* the id is the identity of a project: no two nodes of a list share it
DistinctIds(list) ==
    \A i, j \in 1..Len(list) : i # j => list[i].id # list[j].id

SummaryLists == {l \in ListsUpTo(Summaries, MaxProjects) : DistinctIds(l)}

\* what the remote API may hold for an account: open and closed projects
\* (titles "A", "a1")
Nodes ==
    [id : Ids, number : Numbers, title : {<<65>>, <<97, 49>>},
     closed : BOOLEAN]

NodeLists == {l \in ListsUpTo(Nodes, MaxProjects) : DistinctIds(l)}

----------------------------------------------------------------------------
(* The resolver applied to a list of open summaries *)

InitResolve ==
    /\ pc = "start"
    /\ op = "none"
    /\ nodes = <<>>
    /\ projects \in SummaryLists
    /\ identifier \in Identifiers
    /\ result = NoResult
    /\ items = <<>>
    /\ status_groups = <<>>
    /\ status_order = <<>>
    /\ board = <<>>
    /\ response = NoResponse
    /\ raised = "none"
    /\ queries = <<>>
    /\ RestIdle

FindProjectInList ==
    /\ pc = "start"
    /\ op' = "_find_project_in_list"
    /\ result' = _find_project_in_list(projects, identifier)
    /\ pc' = "done"
    /\ UNCHANGED <<nodes, projects, identifier, boardVars, restVars>>

NextResolve == FindProjectInList

SpecResolve == InitResolve /\ [][NextResolve]_vars

----------------------------------------------------------------------------
(* find_project_id / find_org_project_id against the account's projects *)

InitFind ==
    /\ pc = "start"
    /\ op = "none"
    /\ nodes \in NodeLists
    /\ projects = <<>>
    /\ identifier \in Identifiers
    /\ result = NoResult
    /\ items = <<>>
    /\ status_groups = <<>>
    /\ status_order = <<>>
    /\ board = <<>>
    /\ response = NoResponse
    /\ raised = "none"
    /\ queries = <<>>
    /\ RestIdle

FindProjectId ==
    /\ pc = "start"
    /\ op' = "find_project_id"
    /\ projects' = get_user_projects(nodes)
    /\ result' = find_project_id(nodes, identifier)
    /\ pc' = "done"
    /\ UNCHANGED <<nodes, identifier, boardVars, restVars>>

FindOrgProjectId ==
    /\ pc = "start"
    /\ op' = "find_org_project_id"
    /\ projects' = get_org_projects(nodes)
    /\ result' = find_org_project_id(nodes, identifier)
    /\ pc' = "done"
    /\ UNCHANGED <<nodes, identifier, boardVars, restVars>>

NextFind == FindProjectId \/ FindOrgProjectId

SpecFind == InitFind /\ [][NextFind]_vars

----------------------------------------------------------------------------
(* Inputs of the board *)

MaxBoardItems == 5
MaxItems == 2

Todo == <<84, 111, 100, 111>>                                    \* "Todo"
Done == <<68, 111, 110, 101>>                                    \* "Done"
InProgress == <<73, 110, 32, 80, 114, 111, 103, 114, 101, 115, 115>>  \* "In Progress"
Closed == <<67, 108, 111, 115, 101, 100>>                        \* "Closed"
blocked == <<98, 108, 111, 99, 107, 101, 100>>                   \* "blocked"
Status == <<83, 116, 97, 116, 117, 115>>                         \* "Status"
STATUS == <<83, 84, 65, 84, 85, 83>>                             \* "STATUS"
Statuses == <<83, 116, 97, 116, 117, 115, 101, 115>>             \* "Statuses"
Title == <<84, 105, 116, 108, 101>>                              \* "Title"
Fix == <<70, 105, 120>>                                          \* "Fix"
Idea == <<73, 100, 101, 97>>                                     \* "Idea"
Date2024 == <<50, 48, 50, 52>>                                   \* "2024"
\* "https://github.com/o/r/issues/1"
IssueUrl ==
    <<104, 116, 116, 112, 115, 58, 47, 47, 103, 105, 116, 104, 117, 98, 46,
      99, 111, 109, 47, 111, 47, 114, 47, 105, 115, 115, 117, 101, 115, 47, 49>>

\* field-values: of a named field (text, date or single-select), or of a
\* variant the query selects nothing from (an empty object; its field is
\* None, as is a field that is null)
FieldValue(name, variant, value) ==
    [field |-> [present |-> TRUE, name |-> name], variant |-> variant, value |-> value]
EmptyFieldValue ==
    [field |-> [present |-> FALSE, name |-> <<>>], variant |-> "none", value |-> <<>>]

\* fieldValues of an item: {"nodes": [...]}, or null
FieldValues(nodes_) == [present |-> TRUE, nodes |-> nodes_]
NullFieldValues == [present |-> FALSE, nodes |-> <<>>]

\* author of a content: {"login": ...}, null, or no such key (a draft)
Author(login) == [kind |-> "object", login |-> login]
NullAuthor == [kind |-> "null", login |-> <<>>]
NoAuthor == [kind |-> "missing", login |-> <<>>]

\* content: an issue, a draft issue (no number, no url), or none (the key is
\* missing or null)
IssueContent ==
    [kind |-> "Issue", title |-> Fix, number |-> 1, url |-> IssueUrl,
     author |-> Author(<<111>>)]
DraftContent ==
    [kind |-> "DraftIssue", title |-> Idea, number |-> 0, url |-> <<>>,
     author |-> NoAuthor]
NoContent ==
    [kind |-> "none", title |-> <<>>, number |-> 0, url |-> <<>>,
     author |-> NoAuthor]

\* the options of the Status field of the boards of SpecBoard
StatusOptions == {Todo, Done, InProgress, Closed, blocked}

\* issues with at most one field-value, a single-select value of "Status"
BoardItems ==
    {[fieldValues |-> FieldValues(<<>>), content |-> IssueContent]}
    \cup {[fieldValues |-> FieldValues(<<FieldValue(Status, "select", o)>>),
           content |-> IssueContent] : o \in StatusOptions}

\* an item has at most one value per field, so at most one field-value of a
\* field named "status": none, a single-select value under one of three
\* casings, a text or a date value, or a value of the field "Statuses"
StatusFieldValues ==
    {<<>>}
    \cup {<<FieldValue(n, "select", o)>> : n \in {Status, STATUS, status}, o \in {Todo, Done}}
    \cup {<<FieldValue(Status, "text", Todo)>>,
          <<FieldValue(Status, "date", Date2024)>>,
          <<FieldValue(Statuses, "select", Done)>>}

\* what precedes it in the field-value list: nothing, or an empty object and
\* a text value of the field "Title"
OtherFieldValues == {<<>>, <<EmptyFieldValue, FieldValue(Title, "text", Fix)>>}

RawItems ==
    {[fieldValues |-> FieldValues(a \o b), content |-> c] :
        a \in OtherFieldValues, b \in StatusFieldValues,
        c \in {IssueContent, DraftContent, NoContent}}

\* the one open project of the account the boards are fetched for: id "P"
BoardProject == [id |-> <<80>>, number |-> 1, title |-> <<65>>, closed |-> FALSE]

----------------------------------------------------------------------------
(* The board of a project document: CLI display and MCP resources *)

InitBoardWith(itemLists) ==
    /\ pc = "start"
    /\ op = "none"
    /\ nodes = <<BoardProject>>
    /\ projects = <<>>
    /\ identifier = <<80>>
    /\ result = NoResult
    /\ items \in itemLists
    /\ status_groups = <<>>
    /\ status_order = <<>>
    /\ board = <<>>
    /\ response = NoResponse
    /\ raised = "none"
    /\ queries = <<>>
    /\ RestIdle

\* display_project_board(get_project_items(selected_project["id"]))
DisplayProjectBoard ==
    /\ pc = "start"
    /\ op' = "display_project_board"
    /\ raised' = cli_raised(items)
    /\ status_groups' = IF raised' = "none" THEN cli_group(items, 1, <<>>) ELSE <<>>
    /\ status_order' = compute_status_order(Keys(status_groups'))
    /\ board' = display_tables(items, status_groups', status_order')
    /\ pc' = "done"
    /\ UNCHANGED <<resolveVars, items, response, queries, restVars>>

GetProjectIssues ==
    /\ pc = "start"
    /\ op' = "get_project_issues"
    /\ response' = get_project_issues(nodes, identifier, items)
    /\ queries' = get_project_issues_queries(nodes, identifier)
    /\ pc' = "done"
    /\ UNCHANGED <<resolveVars, items, status_groups, status_order, board, raised,
                   restVars>>

GetOrgProjectIssues ==
    /\ pc = "start"
    /\ op' = "get_org_project_issues"
    /\ response' = get_org_project_issues(nodes, identifier, items)
    /\ queries' = get_org_project_issues_queries(nodes, identifier)
    /\ pc' = "done"
    /\ UNCHANGED <<resolveVars, items, status_groups, status_order, board, raised,
                   restVars>>

NextBoard == DisplayProjectBoard \/ GetProjectIssues \/ GetOrgProjectIssues

\* boards of up to MaxBoardItems issues that differ in their Status option
InitBoard == InitBoardWith(ListsUpTo(BoardItems, MaxBoardItems))
SpecBoard == InitBoard /\ [][NextBoard]_vars

\* documents of up to MaxItems items of every shape
InitItems == InitBoardWith(ListsUpTo(RawItems, MaxItems))
SpecItems == InitItems /\ [][NextBoard]_vars

----------------------------------------------------------------------------
(* The four rules, stated per summary p and identifier x.  The number rule *)
(* is the one the code applies: every leading '#' of the identifier is     *)
(* dropped, what is left must be decimal digits and equal str(p.number).   *)

RECURSIVE DropHashes(_)
DropHashes(x) == IF x # <<>> /\ x[1] = 35 THEN DropHashes(SubSeq(x, 2, Len(x))) ELSE x

AllDigits(x) == Len(x) > 0 /\ \A i \in DOMAIN x : x[i] \in 48..57

IdRule(p, x) == p.id = x
NumberRule(p, x) == AllDigits(DropHashes(x)) /\ Str(p.number) = DropHashes(x)
ExactTitleRule(p, x) == Lower(p.title) = Lower(x)
PartialTitleRule(p, x) ==
    \E a \in 0..(Len(p.title) - Len(x)) :
        SubSeq(Lower(p.title), a + 1, a + Len(x)) = Lower(x)
AnyRule(p, x) ==
    IdRule(p, x) \/ NumberRule(p, x) \/ ExactTitleRule(p, x) \/ PartialTitleRule(p, x)

\* the identifier is N or #N with N all decimal digits; NumberOf is that N
NumberOf(x) == IF x # <<>> /\ x[1] = 35 THEN SubSeq(x, 2, Len(x)) ELSE x
IsNumberForm(x) == AllDigits(NumberOf(x))
HasNumber(p, x) == Str(p.number) = NumberOf(x)

\* which summaries of the list each rule holds for, against the identifier
ById == {i \in DOMAIN projects : IdRule(projects[i], identifier)}
ByNumber == {i \in DOMAIN projects : NumberRule(projects[i], identifier)}
ByNumberN == {i \in DOMAIN projects : HasNumber(projects[i], identifier)}
ByExactTitle == {i \in DOMAIN projects : ExactTitleRule(projects[i], identifier)}
ByPartialTitle == {i \in DOMAIN projects : PartialTitleRule(projects[i], identifier)}

\* the first, in list order, of a non-empty set of positions
Least(S) == CHOOSE i \in S : \A j \in S : i <= j

----------------------------------------------------------------------------
(* Claims about _find_project_in_list (SpecResolve) *)

\* C1: an identifier that equals the id of some summary of the list is
\* returned as it is, whatever the numbers and titles of the summaries are.
C1_IdMatchWins ==
    (pc = "done" /\ ById # {}) => result = Returned(identifier)

\* the id is that of the second summary, and the first summary matches the
\* identifier both by number and by title
C1_Witness ==
    /\ pc = "done"
    /\ Len(projects) = 2
    /\ projects[2].id = identifier
    /\ projects[1].id # identifier
    /\ NumberRule(projects[1], identifier)
    /\ PartialTitleRule(projects[1], identifier)
    /\ result = Returned(identifier)

\* C2: an identifier N or #N that is no summary's id resolves to the id of
\* the first summary whose number prints as N, whatever the titles are.
C2_NumberMatch ==
    (/\ pc = "done"
     /\ IsNumberForm(identifier)
     /\ ById = {}
     /\ ByNumberN # {})
    => result = Returned(projects[Least(ByNumberN)].id)

\* the identifier is "#1", the first summary is titled "#1" and has another
\* number, the second has number 1
C2_Witness ==
    /\ pc = "done"
    /\ identifier = <<35, 49>>
    /\ Len(projects) = 2
    /\ projects[1].title = identifier
    /\ projects[1].number # 1
    /\ projects[2].number = 1
    /\ result = Returned(projects[2].id)

\* C3: when neither the id rule nor the number rule matches, a summary whose
\* title equals the identifier case-insensitively is returned (the first
\* such), wherever the summaries whose title only contains it stand.
C3_ExactTitleOutranksPartial ==
    (/\ pc = "done"
     /\ ById = {}
     /\ ByNumber = {}
     /\ ByExactTitle # {})
    => result = Returned(projects[Least(ByExactTitle)].id)

\* titles "Roadmap 2024" then "Roadmap", identifier "roadmap"
C3_Witness ==
    /\ pc = "done"
    /\ identifier = roadmap
    /\ Len(projects) = 2
    /\ projects[1].title = Roadmap2024
    /\ projects[2].title = Roadmap
    /\ result = Returned(projects[2].id)

\* C4: when only the partial-title rule applies, the id of the first summary
\* in list order whose lower-cased title contains the lower-cased
\* identifier is returned.
C4_PartialTitleFirst ==
    (/\ pc = "done"
     /\ ById = {}
     /\ ByNumber = {}
     /\ ByExactTitle = {}
     /\ ByPartialTitle # {})
    => result = Returned(projects[Least(ByPartialTitle)].id)

\* both titles contain the non-empty identifier in another case, neither
\* equals it, and the first summary is returned
C4_Witness ==
    /\ pc = "done"
    /\ identifier = <<65>>
    /\ Len(projects) = 2
    /\ projects[1].title = <<97, 49>>
    /\ projects[2].title = <<97, 65>>
    /\ ById = {}
    /\ result = Returned(projects[1].id)

C6_EmptyIdentifierNotFound ==
    (/\ pc = "done"
     /\ identifier = <<>>
     /\ \A i \in DOMAIN projects :
            projects[i].title # <<>> /\ projects[i].id # <<>>)
    => result = ValueError

----------------------------------------------------------------------------
(* Claims about find_project_id / find_org_project_id (SpecFind) *)

\* C7: the id returned is never the id of a closed project, and an
\* identifier that no open project matches is not found.
C7_ClosedNeverResolved ==
    pc = "done" =>
        /\ result.kind = "returned" =>
              \A i \in DOMAIN nodes : nodes[i].closed => nodes[i].id # result.id
        /\ (\A i \in DOMAIN nodes :
                ~nodes[i].closed => ~AnyRule(nodes[i], identifier))
           => result = ValueError

\* a closed project matches the identifier by id, an open one stands beside
\* it, and the identifier is not found
C7_Witness ==
    /\ pc = "done"
    /\ op = "find_project_id"
    /\ Len(nodes) = 2
    /\ nodes[1].closed /\ nodes[1].id = identifier
    /\ ~nodes[2].closed
    /\ result = ValueError

----------------------------------------------------------------------------
(* Claims about the board (SpecBoard, SpecItems) *)

\* x occurs in s as a contiguous substring
Occurs(x, s) == \E a \in 0..(Len(s) - Len(x)) : SubSeq(s, a + 1, a + Len(x)) = x

\* a sorts before b: at the first position where they differ a has the
\* smaller code point, or a ends there
Before(a, b) ==
    /\ a # b
    /\ LET n == IF Len(a) < Len(b) THEN Len(a) ELSE Len(b)
           same == {k \in 0..n : SubSeq(a, 1, k) = SubSeq(b, 1, k)}
           k == CHOOSE k \in same : \A l \in same : l <= k
       IN  k = Len(a) \/ (k < Len(b) /\ a[k + 1] < b[k + 1])

\* the statuses of the board, and the item positions grouped under each
Encountered == {status_groups[g].status : g \in DOMAIN status_groups}
GroupOf(s) == CHOOSE g \in DOMAIN status_groups : status_groups[g].status = s
Members(s) == {status_groups[GroupOf(s)].items[k] :
                  k \in DOMAIN status_groups[GroupOf(s)].items}
FirstSeen(s) == CHOOSE i \in Members(s) : \A j \in Members(s) : i <= j

CategoryA == {s \in Encountered : Occurs(todo, Lower(s))}
CategoryC == {s \in Encountered : Occurs(closed, Lower(s)) \/ Occurs(done, Lower(s))}
CategoryB == Encountered \ (CategoryA \cup CategoryC)

\* positions lo+1..lo+n of the order hold exactly the statuses of S
Holds(lo, n, S) == {status_order[k] : k \in (lo + 1)..(lo + n)} = S
InEncounterOrder(lo, n) ==
    \A k, l \in (lo + 1)..(lo + n) :
        k < l => FirstSeen(status_order[k]) < FirstSeen(status_order[l])
Ascending(lo, n) ==
    \A k, l \in (lo + 1)..(lo + n) :
        k < l => Before(status_order[k], status_order[l])

\* statuses first met in the order Done, Todo, In Progress, No Status, Closed
FiveStatusExample ==
    /\ Encountered = {Done, Todo, InProgress, NoStatus, Closed}
    /\ FirstSeen(Done) < FirstSeen(Todo)
    /\ FirstSeen(Todo) < FirstSeen(InProgress)
    /\ FirstSeen(InProgress) < FirstSeen(NoStatus)
    /\ FirstSeen(NoStatus) < FirstSeen(Closed)

\* C8: the order of the groups is the statuses containing "todo" as first
\* met, then the other statuses ascending by their exact text, then the
\* statuses containing "closed" or "done" as first met; statuses met as
\* Done, Todo, In Progress, No Status, Closed come out as Todo,
\* In Progress, No Status, Done, Closed.
C8_GroupOrder ==
    (pc = "done" /\ op = "display_project_board") =>
        LET a == Cardinality(CategoryA)
            b == Cardinality(CategoryB)
            c == Cardinality(CategoryC)
        IN  /\ Len(status_order) = a + b + c
            /\ Holds(0, a, CategoryA) /\ InEncounterOrder(0, a)
            /\ Holds(a, b, CategoryB) /\ Ascending(a, b)
            /\ Holds(a + b, c, CategoryC) /\ InEncounterOrder(a + b, c)
            /\ [k \in 1..Len(board) |-> board[k].status] = status_order
            /\ FiveStatusExample =>
                  status_order = <<Todo, InProgress, NoStatus, Done, Closed>>

C8_Witness ==
    /\ pc = "done"
    /\ op = "display_project_board"
    /\ FiveStatusExample
    /\ status_order = <<Todo, InProgress, NoStatus, Done, Closed>>

\* the positions of a sequence of item positions increase
Increasing(seq) == \A a, b \in DOMAIN seq : a < b => seq[a] < seq[b]

\* how often item i is placed in the groups of the CLI, of the MCP response
TimesGrouped(i) ==
    Cardinality({<<g, k>> \in (DOMAIN status_groups) \X (DOMAIN items) :
                    /\ k \in DOMAIN status_groups[g].items
                    /\ status_groups[g].items[k] = i})
TimesListed(i) ==
    Cardinality({<<g, k>> \in (DOMAIN response.issues_by_status) \X (DOMAIN items) :
                    /\ k \in DOMAIN response.issues_by_status[g].items
                    /\ response.issues_by_status[g].items[k].item = i})

\* C9: within every status group the items stand in the order of the item
\* list, in the groups and tables of the CLI board and in issues_by_status.
C9_GroupKeepsSourceOrder ==
    pc = "done" =>
        /\ \A g \in DOMAIN status_groups : Increasing(status_groups[g].items)
        /\ \A t \in DOMAIN board : Increasing(board[t].rows)
        /\ \A g \in DOMAIN response.issues_by_status :
              Increasing([k \in DOMAIN response.issues_by_status[g].items |->
                              response.issues_by_status[g].items[k].item])
        /\ op = "display_project_board" =>
              \A i \in DOMAIN items : TimesGrouped(i) = 1
        /\ response.type = "project_issues" =>
              \A i \in DOMAIN items :
                  TimesListed(i) = IF items[i].content.number > 0 THEN 1 ELSE 0

\* items 1 and 3 share a status, item 2 between them has another
C9_Witness ==
    /\ pc = "done"
    /\ op = "display_project_board"
    /\ Len(items) = 3
    /\ Len(status_groups) = 2
    /\ status_groups[1].items = <<1, 3>>
    /\ status_groups[2].items = <<2>>
    /\ board[1].rows = <<2>>
    /\ board[2].rows = <<1, 3>>

\* field-values of item i whose field is named "status" in some casing
StatusNamed(i) ==
    {j \in DOMAIN items[i].fieldValues.nodes :
        /\ items[i].fieldValues.nodes[j].field.present
        /\ Lower(items[i].fieldValues.nodes[j].field.name) = status}

\* st is the status the claim gives item i
RightStatus(i, st) ==
    /\ StatusNamed(i) = {} => st = NoStatus
    /\ \A j \in StatusNamed(i) :
          items[i].fieldValues.nodes[j].variant = "select"
          => st = items[i].fieldValues.nodes[j].value

\* C10: an item with no field-value of a field named "status" (in any
\* casing) has the status "No Status"; an item with a single-select value
\* of such a field has the option name as its status.
C10_StatusOfItem ==
    pc = "done" =>
        /\ \A g \in DOMAIN status_groups :
              \A k \in DOMAIN status_groups[g].items :
                  RightStatus(status_groups[g].items[k], status_groups[g].status)
        /\ \A g \in DOMAIN response.issues_by_status :
              \A k \in DOMAIN response.issues_by_status[g].items :
                  LET e == response.issues_by_status[g].items[k]
                  IN  /\ e.status = response.issues_by_status[g].status
                      /\ RightStatus(e.item, e.status)

\* the first item has the option Done under a field named "STATUS", after
\* two other field-values; the second has no field-value at all
C10_Witness ==
    /\ pc = "done"
    /\ op = "display_project_board"
    /\ Len(items) = 2
    /\ items[1].fieldValues.nodes =
          <<EmptyFieldValue, FieldValue(Title, "text", Fix),
            FieldValue(STATUS, "select", Done)>>
    /\ items[2].fieldValues.nodes = <<>>
    /\ Keys(status_groups) = <<Done, NoStatus>>
    /\ status_groups[1].items = <<1>>
    /\ status_groups[2].items = <<2>>

\* C11: the status of an item is the display value of its status-named
\* field-value, whatever its variant: the text of a text value, the date of
\* a date value, the option name of a single-select value.
C11_StatusIsDisplayValue ==
    pc = "done" =>
        /\ \A g \in DOMAIN status_groups :
              \A k \in DOMAIN status_groups[g].items :
                  \A j \in StatusNamed(status_groups[g].items[k]) :
                      status_groups[g].status =
                          items[status_groups[g].items[k]].fieldValues.nodes[j].value
        /\ \A g \in DOMAIN response.issues_by_status :
              \A k \in DOMAIN response.issues_by_status[g].items :
                  LET e == response.issues_by_status[g].items[k]
                  IN  \A j \in StatusNamed(e.item) :
                          e.status = items[e.item].fieldValues.nodes[j].value

----------------------------------------------------------------------------
(* Documents with null or missing sub-documents (SpecNulls) *)

MaxNullItems == 2

\* what the field-values of an item may be: null, an empty node list, a
\* field-value whose field is null, a single-select value of "Status", and
\* one whose option name is null
NullableFieldValues ==
    {NullFieldValues,
     FieldValues(<<>>),
     FieldValues(<<EmptyFieldValue>>),
     FieldValues(<<FieldValue(Status, "select", Todo)>>),
     FieldValues(<<FieldValue(Status, "select", None)>>)}

\* what the content may be: an issue with an author, with a null author,
\* with no author key, a draft, or null
NullableContents ==
    {IssueContent,
     [IssueContent EXCEPT !.author = NullAuthor],
     [IssueContent EXCEPT !.author = NoAuthor],
     DraftContent,
     NoContent}

NullItems == [fieldValues : NullableFieldValues, content : NullableContents]

\* documents of up to MaxNullItems such items; the empty list is also what
\* project_data.get("items", {}).get("nodes", []) gives for a document
\* without "items"
InitNulls == InitBoardWith(ListsUpTo(NullItems, MaxNullItems))
SpecNulls == InitNulls /\ [][NextBoard]_vars

\* C12: grouping a document never raises, whichever nested sub-document is
\* null or missing (fieldValues, the field of a field-value, content,
\* author, the option name of the status), and a document with zero items
\* yields zero groups.
C12_NullsNeverRaise ==
    pc = "done" =>
        /\ raised = "none"
        /\ response.type \in {"none", "project_issues"}
        /\ items = <<>> =>
              /\ status_groups = <<>> /\ board = <<>>
              /\ response.issues_by_status = <<>>

----------------------------------------------------------------------------
(* Claims about which items are grouped (SpecItems) *)

\* item i has content: an issue, a pull request or a draft
HasContent(i) == items[i].content.kind # "none"

\* C13: the items placed into status groups are exactly the items that have
\* content: an item without content creates no group and is not counted in
\* the size of a group, and a draft item is placed in the group of its
\* status, on the CLI board and in issues_by_status.
C13_GroupedIffContent ==
    pc = "done" =>
        /\ op = "display_project_board" =>
              /\ \A i \in DOMAIN items :
                    TimesGrouped(i) = IF HasContent(i) THEN 1 ELSE 0
              /\ \A t \in DOMAIN board : board[t].count = Len(board[t].rows)
        /\ response.type = "project_issues" =>
              \A i \in DOMAIN items :
                  TimesListed(i) = IF HasContent(i) THEN 1 ELSE 0

----------------------------------------------------------------------------
(* Repository references taken from item urls (SpecUrls) *)

MaxUrlItems == 2

\* "https://github.com/a/b/pull/2"
PullUrl ==
    <<104, 116, 116, 112, 115, 58, 47, 47, 103, 105, 116, 104, 117, 98, 46,
      99, 111, 109, 47, 97, 47, 98, 47, 112, 117, 108, 108, 47, 50>>
\* "https://github.com/o/r": no marker
RepoUrl ==
    <<104, 116, 116, 112, 115, 58, 47, 47, 103, 105, 116, 104, 117, 98, 46,
      99, 111, 109, 47, 111, 47, 114>>
ShortIssueUrl == <<47, 105, 115, 115, 117, 101, 115, 47, 49>>    \* "/issues/1"
ShortPullUrl == <<47, 112, 117, 108, 108, 47, 50>>               \* "/pull/2"

PullRequestContent ==
    [kind |-> "PullRequest", title |-> Fix, number |-> 2, url |-> PullUrl,
     author |-> Author(<<97>>)]

\* issue 1 and pull request 2 under each url, and a draft
UrlContents ==
    {[IssueContent EXCEPT !.url = u] : u \in {IssueUrl, RepoUrl, ShortIssueUrl}}
    \cup {[PullRequestContent EXCEPT !.url = u] : u \in {PullUrl, ShortPullUrl}}
    \cup {DraftContent}

UrlItems ==
    [fieldValues : {FieldValues(<<FieldValue(Status, "select", Todo)>>)},
     content : UrlContents]

\* display_issue_details(items): the user types a number, the query for the
\* comments of the issue succeeds or fails
DisplayIssueDetails ==
    /\ pc = "start"
    /\ op' = "display_issue_details"
    /\ \E n \in 0..3, comments_fail \in BOOLEAN :
          /\ choice' = n
          /\ details' = display_issue_details(items, n, comments_fail)
    /\ pc' = "done"
    /\ UNCHANGED <<resolveVars, boardVars, commitVars, loopVars>>

NextUrls == DisplayIssueDetails \/ GetProjectIssues \/ GetOrgProjectIssues

InitUrls == InitBoardWith(ListsUpTo(UrlItems, MaxUrlItems))
SpecUrls == InitUrls /\ [][NextUrls]_vars

\* the url is https://github.com/{owner}/{repo}/{issues|pull}/{number}
Canonical(url) ==
    LET parts == Split(url, 47)
    IN  /\ Len(parts) = 7
        /\ SubSeq(url, 1, 19) = SubSeq(IssueUrl, 1, 19)
        /\ parts[4] # <<>> /\ parts[5] # <<>>
        /\ parts[6] \in {<<105, 115, 115, 117, 101, 115>>, <<112, 117, 108, 108>>}
        /\ AllDigits(parts[7])

\* the slash-delimited segment at 0-indexed position n
Segment(url, n) == Split(url, 47)[n + 1]

\* C14: for every url of the canonical shape, of an issue or of a pull
\* request, the owner and repo taken are the segments at positions 3 and 4,
\* in the CLI issue view and in the entries of issues_by_status.
C14_OwnerRepoOfCanonicalUrl ==
    pc = "done" =>
        /\ (details.item # 0 /\ Canonical(items[details.item].content.url)) =>
              /\ details.kind = "shown"
              /\ details.owner = Segment(items[details.item].content.url, 3)
              /\ details.repo = Segment(items[details.item].content.url, 4)
        /\ \A g \in DOMAIN response.issues_by_status :
              \A k \in DOMAIN response.issues_by_status[g].items :
                  LET e == response.issues_by_status[g].items[k]
                  IN  Canonical(e.url) =>
                          /\ e.owner = Segment(e.url, 3)
                          /\ e.repo = Segment(e.url, 4)

\* C15: a url that is not of the canonical shape, also one that holds a
\* marker but has fewer than five segments, gives empty owner and repo and
\* raises nothing, and the remaining items are still processed.
C15_UnresolvableIsSoft ==
    pc = "done" =>
        /\ details.kind \notin {"IndexError", "AttributeError"}
        /\ details.kind = "shown" => Canonical(items[details.item].content.url)
        /\ op \in {"get_project_issues", "get_org_project_issues"} =>
              /\ response.type = "project_issues"
              /\ \A i \in DOMAIN items :
                    TimesListed(i) = IF items[i].content.number > 0 THEN 1 ELSE 0
              /\ \A g \in DOMAIN response.issues_by_status :
                    \A k \in DOMAIN response.issues_by_status[g].items :
                        LET e == response.issues_by_status[g].items[k]
                        IN  ~Canonical(e.url) => e.owner = <<>> /\ e.repo = <<>>

----------------------------------------------------------------------------
(* The commit filter (SpecCommits) *)

MaxCommits == 3

\* messages: "", "f", "F", "fi", " f", "fix"
Messages ==
    {<<>>, <<102>>, <<70>>, <<102, 105>>, <<32, 102>>, <<102, 105, 120>>}

\* prefixes: "", "f", "F", "fi", " f", " ", "x"
Prefixes ==
    {<<>>, <<102>>, <<70>>, <<102, 105>>, <<32, 102>>, <<32>>, <<120>>}

\* the history of the default branch: every commit has its own oid (here
\* its position in the history) and a message
Histories ==
    {[i \in 1..Len(m) |-> [oid |-> i, message |-> m[i]]] :
        m \in ListsUpTo(Messages, MaxCommits)}

InitCommits ==
    /\ pc = "start"
    /\ op = "none"
    /\ nodes = <<>>
    /\ projects = <<>>
    /\ identifier = <<>>
    /\ result = NoResult
    /\ items = <<>>
    /\ status_groups = <<>>
    /\ status_order = <<>>
    /\ board = <<>>
    /\ response = NoResponse
    /\ raised = "none"
    /\ queries = <<>>
    /\ DetailsIdle
    /\ LoopIdle
    /\ commits \in Histories
    /\ prefix \in Prefixes
    /\ filtered_commits = <<>>

GetCommitsByPrefix ==
    /\ pc = "start"
    /\ op' = "get_commits_by_prefix"
    /\ filtered_commits' = get_commits_by_prefix(commits, prefix)
    /\ pc' = "done"
    /\ UNCHANGED <<resolveVars, boardVars, detailVars, commits, prefix, loopVars>>

NextCommits == GetCommitsByPrefix

SpecCommits == InitCommits /\ [][NextCommits]_vars

\* the message begins with the prefix, character for character
BeginsWith(message, p) ==
    Len(p) <= Len(message) /\ SubSeq(message, 1, Len(p)) = p

\* C16: the list returned is exactly the subsequence of the fetched commits
\* whose message starts with the prefix, compared literally: every commit
\* returned has such a message, none with such a message is left out, and
\* the commits keep their relative order.
C16_ExactlyThePrefixed ==
    pc = "done" =>
        /\ \A k \in DOMAIN filtered_commits :
              /\ filtered_commits[k].oid \in DOMAIN commits
              /\ filtered_commits[k] = commits[filtered_commits[k].oid]
              /\ BeginsWith(filtered_commits[k].message, prefix)
        /\ \A i \in DOMAIN commits :
              BeginsWith(commits[i].message, prefix) =>
                  \E k \in DOMAIN filtered_commits : filtered_commits[k].oid = i
        /\ \A k, l \in DOMAIN filtered_commits :
              k < l => filtered_commits[k].oid < filtered_commits[l].oid

\* prefix "f" over the messages "fi", "F", "f": the first and the third
\* commit are returned, the one that differs in case and the one that would
\* match after trimming (" f") are not
C16_Witness ==
    /\ pc = "done"
    /\ prefix = <<102>>
    /\ Len(commits) = 3
    /\ commits[1].message = <<102, 105>>
    /\ commits[2].message = <<70>>
    /\ commits[3].message = <<102>>
    /\ filtered_commits = <<commits[1], commits[3]>>

\* no message of the fetched commits starts with q
MatchesNothing(q) == \A i \in DOMAIN commits : ~BeginsWith(commits[i].message, q)

\* C17: what the filter returns for the empty prefix differs from what it
\* returns, over the same commits, for every non-empty prefix that matches
\* no commit; the empty commit list included.
C17_EmptyPrefixDistinguishable ==
    (pc = "done" /\ prefix = <<>>) =>
        \A q \in Prefixes \ {<<>>} :
            MatchesNothing(q) => get_commits_by_prefix(commits, q) # filtered_commits

----------------------------------------------------------------------------
(* The project-issues resources against the account's projects (SpecLookup) *)

\* the document of whichever project is resolved holds one issue
InitLookup ==
    /\ pc = "start"
    /\ op = "none"
    /\ nodes \in NodeLists
    /\ projects = <<>>
    /\ identifier \in Identifiers
    /\ result = NoResult
    /\ items = <<[fieldValues |-> FieldValues(<<>>), content |-> IssueContent]>>
    /\ status_groups = <<>>
    /\ status_order = <<>>
    /\ board = <<>>
    /\ response = NoResponse
    /\ raised = "none"
    /\ queries = <<>>
    /\ RestIdle

NextLookup == GetProjectIssues \/ GetOrgProjectIssues

SpecLookup == InitLookup /\ [][NextLookup]_vars

\* positions of the open projects of the account; i is the k-th of them
OpenNodes == {i \in DOMAIN nodes : ~nodes[i].closed}
KthOpen(k) ==
    CHOOSE i \in OpenNodes : Cardinality({j \in OpenNodes : j <= i}) = k

\* no open project matches the identifier by any rule
ResolutionFails ==
    \A i \in OpenNodes : ~AnyRule(nodes[i], identifier)

\* C18: when the identifier resolves to no project, get_project_issues and
\* get_org_project_issues fetch no project document and return an error
\* whose available_projects lists, in list order, the title, id and number
\* of every open project and of no closed one.
C18_ErrorListsOpenProjects ==
    (pc = "done" /\ ResolutionFails) =>
        /\ response.type = "error"
        /\ \A q \in DOMAIN queries : queries[q] # "get_project_items"
        /\ Len(response.available_projects) = Cardinality(OpenNodes)
        /\ \A k \in DOMAIN response.available_projects :
              response.available_projects[k] =
                  [title |-> nodes[KthOpen(k)].title,
                   id |-> nodes[KthOpen(k)].id,
                   number |-> nodes[KthOpen(k)].number]

\* a closed project has the identifier as its id, an open project stands
\* behind it: the error lists the open one only
C18_Witness ==
    /\ pc = "done"
    /\ op = "get_project_issues"
    /\ Len(nodes) = 2
    /\ nodes[1].closed /\ nodes[1].id = identifier
    /\ ~nodes[2].closed
    /\ response.type = "error"
    /\ Len(response.available_projects) = 1
    /\ response.available_projects[1].id = nodes[2].id
    /\ queries = <<"get_user_projects", "get_user_projects">>

----------------------------------------------------------------------------
(* The main loop of the CLI (SpecLoop) *)

MaxIterations == 3

Usernames == {"octocat"}
Orgs == {"github"}

\* what load_cache may find in the cache file
Caches ==
    [last_choice : {"", "user", "org"},
     last_username : {""} \cup Usernames,
     last_org : {""} \cup Orgs]

\* the projects of the account: none, a closed one, an open one, both
ClosedProject == [id |-> <<97>>, number |-> 11, title |-> <<97, 49>>, closed |-> TRUE]
LoopNodeLists ==
    {<<>>, <<ClosedProject>>, <<BoardProject>>, <<ClosedProject, BoardProject>>}

\* the items of the project: none, an issue, an issue with the url
\* "/issues/1", an issue whose fieldValues is null, a draft
LoopItemLists ==
    {<<>>,
     <<[fieldValues |-> FieldValues(<<>>), content |-> IssueContent]>>,
     <<[fieldValues |-> FieldValues(<<>>),
        content |-> [IssueContent EXCEPT !.url = ShortIssueUrl]]>>,
     <<[fieldValues |-> NullFieldValues, content |-> IssueContent]>>,
     <<[fieldValues |-> FieldValues(<<>>), content |-> DraftContent]>>}

InitLoop ==
    /\ pc = "loop"
    /\ op = "run"
    /\ nodes \in LoopNodeLists
    /\ projects = <<>>
    /\ identifier = <<>>
    /\ result = NoResult
    /\ items \in LoopItemLists
    /\ status_groups = <<>>
    /\ status_order = <<>>
    /\ board = <<>>
    /\ response = NoResponse
    /\ raised = "none"
    /\ queries = <<>>
    /\ choice = 0
    /\ details = NoDetails
    /\ commits = <<>>
    /\ prefix = <<>>
    /\ filtered_commits = <<>>
    /\ cache \in Caches
    /\ run_choice = ""
    /\ selected_project = NoProject
    /\ iteration = 0
    /\ gateway = "none"
    /\ reports = <<>>

\* the next iteration of the while loop starts
NextIteration ==
    /\ pc' = "loop"
    /\ iteration' = iteration + 1

\* the head of an iteration: the choice comes from the cache or from the
\* prompt, "exit" breaks, otherwise the account name comes from the cache
\* or from the prompt
RunChoose ==
    /\ pc = "loop"
    /\ iteration < MaxIterations
    /\ gateway' = "none"
    /\ \/ /\ prompt_skipped(cache)
          /\ run_choice' = cache.last_choice
          /\ \E name \in (IF cache.last_choice = "user" THEN Usernames ELSE Orgs) :
                cache' = with_account(cache, cache.last_choice, name)
          /\ pc' = "list_projects"
       \/ /\ ~prompt_skipped(cache)
          /\ \E answer \in {"user", "org", "exit"} :
                /\ run_choice' = answer
                /\ IF answer = "exit"
                   THEN /\ pc' = "exited"
                        /\ cache' = cache
                   ELSE /\ pc' = "list_projects"
                        /\ \E name \in (IF answer = "user" THEN Usernames ELSE Orgs) :
                              cache' = with_account([cache EXCEPT !.last_choice = answer],
                                                    answer, name)
    /\ UNCHANGED <<op, resolveVars, boardVars, detailVars, commitVars,
                   selected_project, iteration, reports>>

\* try: projects = get_user_projects(username) / get_org_projects(org)
\* except Exception: print, continue
RunListProjects ==
    /\ pc = "list_projects"
    /\ \E fails \in BOOLEAN :
          IF fails
          THEN /\ gateway' = "failed"
               /\ reports' = Append(reports, "Error")
               /\ NextIteration
               /\ UNCHANGED projects
          ELSE /\ gateway' = "ok"
               /\ projects' = nodes
               /\ pc' = "display_projects"
               /\ UNCHANGED <<reports, iteration>>
    /\ UNCHANGED <<op, nodes, identifier, result, boardVars, detailVars, commitVars,
                   cache, run_choice, selected_project>>

\* selected_project = display_projects(projects); if not selected_project: continue
RunDisplayProjects ==
    /\ pc = "display_projects"
    /\ gateway' = "none"
    /\ \E n \in 0..2 :
          /\ selected_project' = display_projects(projects, n)
          /\ IF selected_project' = NoProject
             THEN NextIteration
             ELSE pc' = "get_project_items" /\ UNCHANGED iteration
    /\ UNCHANGED <<op, resolveVars, boardVars, detailVars, commitVars,
                   cache, run_choice, reports>>

RunGetProjectItems_uncaught ==
    /\ pc = "get_project_items"
    /\ \E fails \in BOOLEAN :
          IF fails
          THEN /\ gateway' = "failed"
               /\ pc' = "exited"
               /\ UNCHANGED <<reports, iteration>>
          ELSE /\ gateway' = "ok"
               /\ pc' = "display_project_board"
               /\ UNCHANGED <<reports, iteration>>
    /\ UNCHANGED <<op, resolveVars, boardVars, detailVars, commitVars,
                   cache, run_choice, selected_project>>
\* try: project_data = get_project_items(selected_project["id"])
\* except Exception: print; then the separator and the next iteration
RunGetProjectItems ==
    /\ pc = "get_project_items"
    /\ \E fails \in BOOLEAN :
          IF fails
          THEN /\ gateway' = "failed"
               /\ reports' = Append(reports, "Error loading project")
               /\ NextIteration
          ELSE /\ gateway' = "ok"
               /\ pc' = "display_project_board"
               /\ UNCHANGED <<reports, iteration>>
    /\ UNCHANGED <<op, resolveVars, boardVars, detailVars, commitVars,
                   cache, run_choice, selected_project>>

\* items = display_project_board(project_data), inside the same try; an
\* exception it raises is printed; if items: display_issue_details follows
RunDisplayProjectBoard ==
    /\ pc = "display_project_board"
    /\ gateway' = "none"
    /\ raised' = cli_raised(items)
    /\ status_groups' = IF raised' = "none" THEN cli_group(items, 1, <<>>) ELSE <<>>
    /\ status_order' = compute_status_order(Keys(status_groups'))
    /\ board' = display_tables(items, status_groups', status_order')
    /\ IF raised' # "none"
       THEN /\ reports' = Append(reports, "Error loading project")
            /\ NextIteration
       ELSE /\ UNCHANGED reports
            /\ IF items = <<>>
               THEN NextIteration
               ELSE pc' = "display_issue_details" /\ UNCHANGED iteration
    /\ UNCHANGED <<op, resolveVars, items, response, queries, detailVars, commitVars,
                   cache, run_choice, selected_project>>

\* display_issue_details(items), inside the same try: a failure of the
\* query for the comments is caught and printed inside it, an exception it
\* raises is printed by run; then the separator and the next iteration
RunDisplayIssueDetails ==
    /\ pc = "display_issue_details"
    /\ \E n \in 0..2, comments_fail \in BOOLEAN :
          /\ choice' = n
          /\ details' = display_issue_details(items, n, comments_fail)
    /\ gateway' = IF details'.kind # "shown" THEN "none"
                  ELSE IF details'.comments = "error" THEN "failed" ELSE "ok"
    /\ reports' =
          IF details'.kind \in {"IndexError", "AttributeError"}
          THEN Append(reports, "Error loading project")
          ELSE IF details'.kind = "shown" /\ details'.comments = "error"
          THEN Append(reports, "Error fetching comments")
          ELSE reports
    /\ NextIteration
    /\ UNCHANGED <<op, resolveVars, boardVars, commitVars,
                   cache, run_choice, selected_project>>

NextLoop ==
    \/ RunChoose
    \/ RunListProjects
    \/ RunDisplayProjects
    \/ RunGetProjectItems
    \/ RunDisplayProjectBoard
    \/ RunDisplayIssueDetails

SpecLoop == InitLoop /\ [][NextLoop]_vars

\* the three steps that query the remote API
FetchSteps == {"list_projects", "get_project_items", "display_issue_details"}

\* what run prints for a failure of the query of each step
ReportOf(step) ==
    IF step = "list_projects" THEN "Error"
    ELSE IF step = "get_project_items" THEN "Error loading project"
    ELSE "Error fetching comments"

----------------------------------------------------------------------------
(* Boards whose labels fall into more than one category (SpecLabels) *)

MaxLabelItems == 3

\* "Todo - done"
TodoDone == <<84, 111, 100, 111, 32, 45, 32, 100, 111, 110, 101>>

\* issues with no status, or with one of the options Todo, Done,
\* "Todo - done", blocked
LabelItems ==
    {[fieldValues |-> FieldValues(<<>>), content |-> IssueContent]}
    \cup {[fieldValues |-> FieldValues(<<FieldValue(Status, "select", o)>>),
           content |-> IssueContent] : o \in {Todo, Done, TodoDone, blocked}}

InitLabels == InitBoardWith(ListsUpTo(LabelItems, MaxLabelItems))
SpecLabels == InitLabels /\ [][NextBoard]_vars

\* how often the status s stands in the order, and among the tables
TimesOrdered(s) == Cardinality({k \in DOMAIN status_order : status_order[k] = s})
TimesDisplayed(s) == Cardinality({t \in DOMAIN board : board[t].status = s})

\* C20: every distinct status of the board stands exactly once in the order
\* display_project_board computes, also a status whose lower-cased text
\* contains both "todo" and "done" or "closed": no group is displayed
\* twice and none is left out.
C20_EachStatusOnce ==
    (pc = "done" /\ op = "display_project_board") =>
        /\ \A s \in Encountered : TimesOrdered(s) = 1 /\ TimesDisplayed(s) = 1
        /\ \A k \in DOMAIN status_order : status_order[k] \in Encountered

----------------------------------------------------------------------------
(* Whether the prompt of the main loop comes back (SpecLoop) *)

\* the entries of the cache are only ever set, never removed, so a cache
\* that skips the prompt skips it in every later iteration
CacheOnlyGrows ==
    [][/\ cache.last_choice # "" => cache'.last_choice # ""
       /\ cache.last_username # "" => cache'.last_username = cache.last_username
       /\ cache.last_org # "" => cache'.last_org = cache.last_org
       /\ prompt_skipped(cache) => prompt_skipped(cache')]_vars

\* C21: while the loop runs, the prompt for user/org/exit remains reachable:
\* the cache never comes to skip it, whatever the iterations so far stored
\* in the cache and however they ended.
C21_PromptRemainsReachable ==
    pc # "exited" => ~prompt_skipped(cache)

=============================================================================
